---- MODULE Spec2Model ----
(***************************************************************************)
(* Greedy word wrapping with full justification (src/src/lib.rs).           *)
(*                                                                         *)
(* A text is a sequence of characters.  A character is modelled by a one   *)
(* character string; "W" stands for any scalar value whose UTF-8 encoding  *)
(* takes two bytes (such as U+00E9), "a" for a one-byte scalar value, and  *)
(* " " and "\n" are the whitespace characters.  A Rust &str is such a      *)
(* sequence, and str::len() is its length in BYTES.                        *)
(*                                                                         *)
(* char_counter, line_width and the casts `as u32` are 32 bits wide.  The  *)
(* lengths and widths of the model stay below MaxInputLen + MaxWidth, far  *)
(* from 2^32, so the casts keep their value and no sum wraps around; the   *)
(* unsigned subtractions and the division are checked explicitly.          *)
(*                                                                         *)
(* transform(input, line_width) is run as a state machine: one step per    *)
(* iteration of the loop of Document::from_str, one step per iteration of  *)
(* the loop over the lines in Document::format_to_string, and one step for *)
(* each of the two returns.                                                *)
(***************************************************************************)
EXTENDS Integers, Sequences, FiniteSets, TLC

\* Bounds of the model: the longest input text, in characters, and the
\* largest line width.
MaxInputLen == 5
MaxWidth == 6

VARIABLES
    input,        \* the text handed to transform
    line_width,   \* the width handed to transform (Document.line_width)
    pc,           \* "from_str", "format", "done" or "panic"
    word_index,   \* how many words input.split_whitespace() has yielded
    lines,        \* Document.lines: a sequence of Line records
    line_number,  \* how many lines format_to_string has rendered
    text,         \* the String format_to_string is building
    result,       \* what transform returned: "none" (not yet), "Ok", "Err"
    fault         \* the arithmetic fault that stopped the run, or "none"

vars == <<input, line_width, pc, word_index, lines, line_number, text, result, fault>>

----------------------------------------------------------------------------
\* Characters and strings

Whitespace == {" ", "\n"}

Chars == {"a", "W"} \cup Whitespace

\* char::is_whitespace, as str::split_whitespace uses it
IsWhitespace(c) == c \in Whitespace

\* the number of bytes of the UTF-8 encoding of a character
len_utf8(c) == IF c = "W" THEN 2 ELSE 1

\* str::len(): the length of a string in bytes
RECURSIVE str_len(_)
str_len(s) == IF s = <<>> THEN 0 ELSE len_utf8(Head(s)) + str_len(Tail(s))

\* str::split_whitespace(): the maximal runs of non-whitespace characters,
\* in order; cur is the word being read, acc the words read so far
RECURSIVE SplitAcc(_, _, _)
SplitAcc(s, cur, acc) ==
    IF s = <<>>
    THEN IF cur = <<>> THEN acc ELSE Append(acc, cur)
    ELSE IF IsWhitespace(Head(s))
         THEN SplitAcc(Tail(s), <<>>, IF cur = <<>> THEN acc ELSE Append(acc, cur))
         ELSE SplitAcc(Tail(s), Append(cur, Head(s)), acc)

split_whitespace(s) == SplitAcc(s, <<>>, <<>>)

\* All texts of at most n characters
Texts(n) == UNION {[1..k -> Chars] : k \in 0..n}

----------------------------------------------------------------------------
\* struct Line

new_with_word(word) ==
    [words |-> <<word>>, char_counter |-> str_len(word)]

Line_add_word(line, word) ==
    [words |-> Append(line.words, word),
     char_counter |-> line.char_counter + str_len(word)]

char_count(line) == line.char_counter

word_count(line) == Len(line.words)

\* Variants of word_fits: the space before the new word not counted; no
\* space counted at all; the comparison strict.
word_fits_OneGapShort(line, word, width) ==
    char_count(line) + (word_count(line) - 1) + str_len(word) <= width

word_fits_NoGaps(line, word, width) ==
    char_count(line) + str_len(word) <= width

word_fits_Strict(line, word, width) ==
    char_count(line) + word_count(line) + str_len(word) < width

word_fits(line, word, width) ==
    char_count(line) + word_count(line) + str_len(word) <= width

----------------------------------------------------------------------------
\* struct Document

\* Variant of Document::add_word: the fit is tested against the first line
\* (lines.first()) instead of the last.
Document_add_word_First(ls, word, width) ==
    LET create_new_line ==
            IF ls = <<>> THEN TRUE ELSE ~word_fits(ls[1], word, width)
    IN  IF create_new_line
        THEN Append(ls, new_with_word(word))
        ELSE [ls EXCEPT ![Len(ls)] = Line_add_word(ls[Len(ls)], word)]

\* Document::add_word: the lines after the word is added
Document_add_word(ls, word, width) ==
    LET create_new_line ==
            IF ls = <<>> THEN TRUE ELSE ~word_fits(ls[Len(ls)], word, width)
    IN  IF create_new_line
        THEN Append(ls, new_with_word(word))
        ELSE [ls EXCEPT ![Len(ls)] = Line_add_word(ls[Len(ls)], word)]

\* Variant of the test: a word as long as the line is rejected too.
WordTooLong_Inclusive(word, width) == str_len(word) >= width

\* the test of from_str that rejects a word
WordTooLong(word, width) == str_len(word) > width

\* the words input.split_whitespace() yields
Words == split_whitespace(input)

\* One iteration of the loop of Document::from_str: the next word is
\* rejected, which returns Err and drops the Document, or added.
from_str_word ==
    /\ pc = "from_str"
    /\ word_index < Len(Words)
    /\ LET word == Words[word_index + 1] IN
         IF WordTooLong(word, line_width)
         THEN /\ result' = "Err"
              /\ pc' = "done"
              /\ lines' = <<>>
         ELSE /\ lines' = Document_add_word(lines, word, line_width)
              /\ UNCHANGED <<result, pc>>
    /\ word_index' = word_index + 1
    /\ UNCHANGED <<input, line_width, line_number, text, fault>>

\* The loop of from_str has ended: Ok(doc), which transform hands to
\* format_to_string.
from_str_return ==
    /\ pc = "from_str"
    /\ word_index = Len(Words)
    /\ pc' = "format"
    /\ UNCHANGED <<input, line_width, word_index, lines, line_number, text, result, fault>>

----------------------------------------------------------------------------
\* Document::format_to_string

\* Variant of add_whitespaces: the range 0..=count, one space too many.
add_whitespaces_Inclusive(count) == [i \in 1..(count + 1) |-> " "]

\* the closure add_whitespaces: count spaces
add_whitespaces(count) == [i \in 1..count |-> " "]

\* Variant of the branch: a line of one word is taken as well.
IsMultiWord_FromOne(line) == word_count(line) > 0

\* the branch of the loop body that distributes the padding over the gaps
IsMultiWord(line) == word_count(line) > 1

\* Variant of the gap width: the comparison with extra_witespace inclusive.
GapWidth_Inclusive(word_number, base_witespace_width, extra_witespace) ==
    IF word_number <= extra_witespace
    THEN base_witespace_width + 1
    ELSE base_witespace_width

\* the number of spaces after word word_number of a line of several words
GapWidth(word_number, base_witespace_width, extra_witespace) ==
    IF word_number < extra_witespace
    THEN base_witespace_width + 1
    ELSE base_witespace_width

\* the inner loop: the words from word_number on, each followed by its gap
RECURSIVE RenderWords(_, _, _, _, _)
RenderWords(ws, word_number, gap_count, base, extra) ==
    IF ws = <<>>
    THEN <<>>
    ELSE Head(ws)
         \o (IF word_number < gap_count
             THEN add_whitespaces(GapWidth(word_number, base, extra))
             ELSE <<>>)
         \o RenderWords(Tail(ws), word_number + 1, gap_count, base, extra)

\* Variant: a newline after the last line too.
NeedsNewline_Always(number, nlines) == number < nlines

\* whether a newline follows line line_number of nlines
NeedsNewline(number, nlines) == number < nlines - 1

\* The body of the loop over the lines, for one line: the characters it
\* appends to the text, and the arithmetic fault it runs into, if any (an
\* unsigned subtraction below zero, a division by zero).  A fault panics in a
\* build with overflow checks; without them the subtraction wraps around.
\* Either way the fault is recorded and the run stops.
RenderLine(line, width, number, nlines) ==
    IF nlines < 1
    THEN [out |-> <<>>, fault |-> "underflow"]
    ELSE IF width < char_count(line)
    THEN [out |-> <<>>, fault |-> "underflow"]
    ELSE LET newline == IF NeedsNewline(number, nlines) THEN <<"\n">> ELSE <<>> IN
         IF IsMultiWord(line)
         THEN IF word_count(line) < 1
              THEN [out |-> <<>>, fault |-> "underflow"]
              ELSE LET whitespace_count == width - char_count(line)
                       gap_count == word_count(line) - 1
                   IN  IF gap_count = 0
                       THEN [out |-> <<>>, fault |-> "division by zero"]
                       ELSE [out |-> RenderWords(line.words, 0, gap_count,
                                                 whitespace_count \div gap_count,
                                                 whitespace_count % gap_count)
                                     \o newline,
                             fault |-> "none"]
         ELSE LET whitespaces == width - char_count(line) IN
              [out |-> (IF line.words = <<>> THEN <<>> ELSE Head(line.words))
                       \o add_whitespaces(whitespaces) \o newline,
               fault |-> "none"]

\* One iteration of the loop over the lines.
format_line ==
    /\ pc = "format"
    /\ line_number < Len(lines)
    /\ LET r == RenderLine(lines[line_number + 1], line_width, line_number, Len(lines)) IN
         IF r.fault = "none"
         THEN /\ text' = text \o r.out
              /\ line_number' = line_number + 1
              /\ UNCHANGED <<pc, fault>>
         ELSE /\ fault' = r.fault
              /\ pc' = "panic"
              /\ UNCHANGED <<text, line_number>>
    /\ UNCHANGED <<input, line_width, word_index, lines, result>>

\* The loop has ended: format_to_string returns the text, transform Ok(text).
format_return ==
    /\ pc = "format"
    /\ line_number = Len(lines)
    /\ result' = "Ok"
    /\ pc' = "done"
    /\ UNCHANGED <<input, line_width, word_index, lines, line_number, text, fault>>

----------------------------------------------------------------------------
\* transform(input, line_width), for every input and width within the bounds

Init ==
    /\ input \in Texts(MaxInputLen)
    /\ line_width \in 0..MaxWidth
    /\ pc = "from_str"
    /\ word_index = 0
    /\ lines = <<>>
    /\ line_number = 0
    /\ text = <<>>
    /\ result = "none"
    /\ fault = "none"

Next ==
    \/ from_str_word
    \/ from_str_return
    \/ format_line
    \/ format_return

Spec == Init /\ [][Next]_vars

----------------------------------------------------------------------------
\* What the claims speak of

\* transform has returned Ok(text)
Finished == pc = "done" /\ result = "Ok"

\* s split on the character sep, as str::split does: one piece more than
\* there are separators in s
RECURSIVE SplitOnAcc(_, _, _, _)
SplitOnAcc(s, sep, cur, acc) ==
    IF s = <<>>
    THEN Append(acc, cur)
    ELSE IF Head(s) = sep
         THEN SplitOnAcc(Tail(s), sep, <<>>, Append(acc, cur))
         ELSE SplitOnAcc(Tail(s), sep, Append(cur, Head(s)), acc)

SplitOn(s, sep) == SplitOnAcc(s, sep, <<>>, <<>>)

\* the lines of the output
RenderedLines == SplitOn(text, "\n")

\* how often the character c occurs in s
RECURSIVE Count(_, _)
Count(s, c) ==
    IF s = <<>> THEN 0 ELSE (IF Head(s) = c THEN 1 ELSE 0) + Count(Tail(s), c)

\* the sum of the numbers of a sequence
RECURSIVE Sum(_)
Sum(ns) == IF ns = <<>> THEN 0 ELSE Head(ns) + Sum(Tail(ns))

\* the byte lengths of the words ws, summed
RECURSIVE WordsLen(_)
WordsLen(ws) == IF ws = <<>> THEN 0 ELSE str_len(Head(ws)) + WordsLen(Tail(ws))

\* what the words ws take on a line with one space in each gap
Occupied(ws) == WordsLen(ws) + (Len(ws) - 1)

\* Read off a rendered line: for each maximal run of non-space characters,
\* the number of spaces that follow it (0 when none does).  prev is the
\* character before s.
RECURSIVE GapsAcc(_, _, _)
GapsAcc(s, prev, acc) ==
    IF s = <<>>
    THEN acc
    ELSE IF Head(s) = " "
         THEN GapsAcc(Tail(s), " ",
                      IF acc = <<>> THEN <<1>> ELSE [acc EXCEPT ![Len(acc)] = @ + 1])
         ELSE GapsAcc(Tail(s), Head(s), IF prev = " " THEN Append(acc, 0) ELSE acc)

Gaps(s) == GapsAcc(s, " ", <<>>)

\* The gaps the specification gives a line of the words ws at width w: the
\* gap after word k (counted from 1) for the gap_count first words, and 0
\* after the last.
SpecifiedGaps(ws, w) ==
    LET whitespace_count == w - WordsLen(ws)
        gap_count == Len(ws) - 1
        base == whitespace_count \div gap_count
        extra == whitespace_count % gap_count
    IN  [k \in 1..Len(ws) |->
            IF k <= gap_count
            THEN (IF k - 1 < extra THEN base + 1 ELSE base)
            ELSE 0]

MultiWordLines == {i \in DOMAIN lines : Len(lines[i].words) > 1}

SingleWordLines == {i \in DOMAIN lines : Len(lines[i].words) = 1}

\* a step of from_str that adds a word to the Document
AddsWord == pc = "from_str" /\ word_index' = word_index + 1 /\ result' = "none"

----------------------------------------------------------------------------
\* C1. Fixed width: when transform returns Ok(s) for an input of at least
\* one word, every line of s (s split on '\n'), the last one and the lines
\* of a single word included, has length exactly line_width, the length
\* counted as the program counts the length of a word (str::len, bytes;
\* a space is one).
FixedWidth ==
    (Finished /\ Words # <<>>) =>
        \A i \in DOMAIN RenderedLines : str_len(RenderedLines[i]) = line_width

\* a two-byte character, a line of several words and a last line of one
FixedWidthWitness ==
    /\ Finished
    /\ \E k \in DOMAIN input : input[k] = "W"
    /\ Len(lines) >= 2
    /\ MultiWordLines # {}
    /\ Len(lines) \in SingleWordLines

\* C2. Word preservation: when transform returns Ok(s), s split on
\* whitespace is the sequence of words of the input split on whitespace: no
\* word lost, doubled, moved, changed or merged with its neighbour.
WordPreservation ==
    Finished => split_whitespace(text) = split_whitespace(input)

\* three words, not all alike, on two lines or more
WordPreservationWitness ==
    /\ Finished
    /\ Len(Words) >= 3
    /\ Words[1] # Words[2]
    /\ Len(lines) >= 2
    /\ MultiWordLines # {}

\* C3. transform returns Err(WordTooLong) exactly when some word of the
\* input is longer (str::len) than line_width, and Ok otherwise; the error
\* comes at the first such word, with no Document and no output.
ErrIffWordTooLong ==
    LET too_long == {i \in DOMAIN Words : str_len(Words[i]) > line_width} IN
    /\ pc = "done" => (result = "Err" <=> too_long # {})
    /\ pc = "done" => (result = "Ok" <=> too_long = {})
    /\ pc # "done" => result = "none"
    /\ pc = "format" => too_long = {}
    /\ result = "Err" =>
          /\ word_index \in too_long
          /\ \A j \in too_long : word_index <= j
          /\ lines = <<>>
          /\ text = <<>>

\* the error comes after a word that was accepted
ErrIffWordTooLongWitness ==
    /\ result = "Err"
    /\ word_index >= 2

\* C4. Gap distribution: in a rendered line of several words the gap after
\* word i (from 0) is base + 1 spaces when i < extra and base spaces
\* otherwise, with base and extra the quotient and the remainder of
\* line_width - char_count by word_count - 1; so the gaps do not grow from
\* left to right, differ by one at most, sum to line_width - char_count, and
\* no space follows the last word.
GapDistribution ==
    Finished =>
        \A i \in MultiWordLines :
            /\ i \in DOMAIN RenderedLines
            /\ LET g == Gaps(RenderedLines[i])
                   n == Len(lines[i].words)
               IN  /\ g = SpecifiedGaps(lines[i].words, line_width)
                   /\ \A k \in 1..(n - 2) : g[k] >= g[k + 1] /\ g[k] - g[k + 1] <= 1
                   /\ Sum(g) = line_width - WordsLen(lines[i].words)
                   /\ g[n] = 0

\* a line of three words whose padding leaves a remainder
GapDistributionWitness ==
    /\ Finished
    /\ \E i \in MultiWordLines :
          /\ Len(lines[i].words) >= 3
          /\ (line_width - lines[i].char_counter) % (Len(lines[i].words) - 1) > 0

\* C5. The length of a word is its number of characters, whatever their
\* number of bytes: a word of k characters is accepted exactly when
\* k <= line_width, and a rendered line counts line_width characters.
ScalarUnitLength ==
    /\ pc = "done" =>
          (result = "Ok" <=> \A i \in DOMAIN Words : Len(Words[i]) <= line_width)
    /\ (Finished /\ Words # <<>>) =>
          \A i \in DOMAIN RenderedLines : Len(RenderedLines[i]) = line_width

\* C6. Line joining: the output is the rendered lines in order with one
\* '\n' between two lines and none after the last (n - 1 newlines for
\* n >= 1 lines); a Document of no line renders to the empty string, so an
\* input of no word gives Ok("") at every width.
LineJoining ==
    /\ Finished =>
          IF lines = <<>>
          THEN text = <<>>
          ELSE /\ Count(text, "\n") = Len(lines) - 1
               /\ text[Len(text)] # "\n"
               /\ Len(RenderedLines) = Len(lines)
               /\ \A i \in DOMAIN lines :
                     split_whitespace(RenderedLines[i]) = lines[i].words
    /\ (pc = "done" /\ Words = <<>>) => (result = "Ok" /\ text = <<>>)

\* three lines or more
LineJoiningWitness ==
    /\ Finished
    /\ Len(lines) >= 3

\* C7, as stated. word_fits is one unit stricter than the exact condition:
\* a word is appended only when the words of the line with one space per gap
\* then take at most line_width - 1.
ConservativeFit ==
    \A i \in MultiWordLines : Occupied(lines[i].words) <= line_width - 1

\* C7, amended. word_fits is the exact fit condition: a word is appended to
\* the open line exactly when the words of the line with one space per gap
\* then take at most line_width, line_width itself included.
ExactFit ==
    [][(AddsWord /\ lines # <<>>) =>
          LET word == Words[word_index + 1]
              open == lines[Len(lines)]
          IN  /\ Len(lines') \in {Len(lines), Len(lines) + 1}
              /\ Len(lines') = Len(lines)
                    <=> Occupied(Append(open.words, word)) <= line_width
              /\ Len(lines') = Len(lines)
                    => lines'[Len(lines)].words = Append(open.words, word)]_vars

\* a line of several words that takes the whole width with single spaces
ExactFitWitness ==
    \E i \in MultiWordLines : Occupied(lines[i].words) = line_width

\* C8. Line invariant: every Line of the Document, the last included, has
\* at least one word, char_counter the sum of the lengths of its words and
\* char_counter + (word_count - 1) <= line_width; so no line of several
\* words has char_counter = line_width, and each of its gaps is rendered
\* with one space at least.
LineInvariant ==
    /\ \A i \in DOMAIN lines :
          /\ Len(lines[i].words) >= 1
          /\ lines[i].char_counter = WordsLen(lines[i].words)
          /\ lines[i].char_counter + (Len(lines[i].words) - 1) <= line_width
    /\ \A i \in MultiWordLines : lines[i].char_counter # line_width
    /\ Finished =>
          \A i \in MultiWordLines :
              /\ i \in DOMAIN RenderedLines
              /\ LET g == Gaps(RenderedLines[i]) IN
                   /\ Len(g) = Len(lines[i].words)
                   /\ \A k \in 1..(Len(g) - 1) : g[k] >= 1

\* in from_str: a closed line of several words and an open line
LineInvariantWitness ==
    /\ pc = "from_str"
    /\ Len(lines) >= 2
    /\ 1 \in MultiWordLines

\* C9. Greedy packing: add_word pushes a new Line of the one word exactly
\* when there is no Line or the word does not fit the last Line, and appends
\* the word to the last Line otherwise; the earlier Lines and the words
\* already placed stay as they are.  So of two consecutive lines L and L',
\* the first word w of L' has
\* char_count(L) + word_count(L) + length(w) > line_width.
GreedyPacking ==
    [][/\ AddsWord =>
            LET word == Words[word_index + 1]
                n == Len(lines)
                new_line == \/ n = 0
                            \/ lines[n].char_counter + Len(lines[n].words)
                                  + str_len(word) > line_width
            IN  IF new_line
                THEN lines' = Append(lines,
                                     [words |-> <<word>>, char_counter |-> str_len(word)])
                ELSE /\ Len(lines') = n
                     /\ \A i \in 1..(n - 1) : lines'[i] = lines[i]
                     /\ lines'[n].words = Append(lines[n].words, word)
       /\ (pc = "format") => lines' = lines
       /\ \A i \in 1..(Len(lines') - 1) :
              lines'[i].char_counter + Len(lines'[i].words)
                  + str_len(lines'[i + 1].words[1]) > line_width]_vars

\* a line of several words was closed because the next word did not fit
GreedyPackingWitness ==
    /\ Len(lines) >= 2
    /\ \E i \in MultiWordLines : i < Len(lines)

\* C10. Arithmetic safety at every width, 0 included: from_str followed by
\* format_to_string divides by no zero and takes no unsigned difference
\* below zero (line_width - char_count, word_count - 1, lines.len() - 1);
\* at width 0 transform returns Ok("") for an input of no word and
\* Err(WordTooLong) for any other.
ArithmeticSafety ==
    /\ fault = "none"
    /\ pc # "panic"
    /\ pc = "format" =>
          \A i \in DOMAIN lines :
              /\ line_width - lines[i].char_counter >= 0
              /\ Len(lines[i].words) - 1 >= 0
    /\ (pc = "done" /\ line_width = 0) =>
          IF Words = <<>>
          THEN result = "Ok" /\ text = <<>>
          ELSE result = "Err"

\* rendered: a line of one word that leaves no padding, among several lines
ArithmeticSafetyWitness ==
    /\ Finished
    /\ Len(lines) >= 2
    /\ \E i \in SingleWordLines : lines[i].char_counter = line_width

====
